---- MODULE Spec2Model ----
(***************************************************************************)
(* Route management and resolution of ice (src/ice.py): Router,            *)
(* WildcardRoute, Wildcard and RegexRoute.                                  *)
(*                                                                         *)
(* A Python str is a sequence of one-character strings.  The three         *)
(* defaultdicts of Router are functions whose DOMAIN is the set of keys    *)
(* the dict holds, so that a key created by a failed call is visible.      *)
(***************************************************************************)
EXTENDS Integers, Sequences, FiniteSets, TLC

VARIABLES
    _literal,   \* Router._literal : method -> (path -> callback)
    _wildcard,  \* Router._wildcard: method -> list of WildcardRoute
    _regex,     \* Router._regex   : method -> list of RegexRoute
    call,       \* the last call made and what it returned or raised
    history     \* the Router.add calls made so far, in order

vars == <<_literal, _wildcard, _regex, call, history>>

(***************************************************************************)
(* Strings                                                                 *)
(***************************************************************************)
NL == "\n"

Digits == {"0", "1", "2", "3", "4", "5", "6", "7", "8", "9"}

NonZeroDigits == Digits \ {"0"}

Letters ==
    {"a", "b", "c", "d", "e", "f", "g", "h", "i", "j", "k", "l", "m",
     "n", "o", "p", "q", "r", "s", "t", "u", "v", "w", "x", "y", "z",
     "A", "B", "C", "D", "E", "F", "G", "H", "I", "J", "K", "L", "M",
     "N", "O", "P", "Q", "R", "S", "T", "U", "V", "W", "X", "Y", "Z"}

\* The characters \w matches.
WordChars == Letters \cup Digits \cup {"_"}

StartsWith(s, p) == Len(s) >= Len(p) /\ SubSeq(s, 1, Len(p)) = p

Drop(s, n) == SubSeq(s, n + 1, Len(s))

RECURSIVE IndexOf(_, _, _)
\* str.find(c) from position i (1-based); 0 when c does not occur.
IndexOf(s, c, i) ==
    IF i > Len(s) THEN 0
    ELSE IF s[i] = c THEN i
    ELSE IndexOf(s, c, i + 1)

(***************************************************************************)
(* Compiled regular expressions (re.compile) and re.search.                *)
(* A compiled pattern is a sequence of nodes; every node is a record of    *)
(* the same shape.  Matching is by backtracking: the outcomes of a node    *)
(* are listed in the order the engine tries them (greedy repetition tries  *)
(* one more iteration first, alternation tries the left branch first), and *)
(* the match reported is the first outcome.                                *)
(***************************************************************************)
CharSet(cs) ==
    [k |-> "set", neg |-> FALSE, cs |-> cs, lo |-> 0, many |-> FALSE,
     idx |-> 0, alts |-> <<>>]

NotCharSet(cs) ==
    [k |-> "set", neg |-> TRUE, cs |-> cs, lo |-> 0, many |-> FALSE,
     idx |-> 0, alts |-> <<>>]

\* `.` without re.DOTALL: any character except a newline.
Dot == NotCharSet({NL})

\* body* (lo = 0, many), body+ (lo = 1, many), body? (lo = 0, ~many)
Rep(lo, many, body) ==
    [k |-> "rep", neg |-> FALSE, cs |-> {}, lo |-> lo, many |-> many,
     idx |-> 0, alts |-> <<body>>]

\* (a|b|...): capturing group number idx; idx = 0 is (?:a|b|...)
Group(idx, alts) ==
    [k |-> "grp", neg |-> FALSE, cs |-> {}, lo |-> 0, many |-> FALSE,
     idx |-> idx, alts |-> alts]

\* `^` without re.MULTILINE
Bol ==
    [k |-> "bol", neg |-> FALSE, cs |-> {}, lo |-> 0, many |-> FALSE,
     idx |-> 0, alts |-> <<>>]

\* `$` without re.MULTILINE: the end, or just before a newline at the end
Eol ==
    [k |-> "eol", neg |-> FALSE, cs |-> {}, lo |-> 0, many |-> FALSE,
     idx |-> 0, alts |-> <<>>]

\* The literal text s, as re.escape(s) compiles.
Literal(s) == [i \in 1..Len(s) |-> CharSet({s[i]})]

NoCap == [has |-> FALSE, s |-> <<>>]

RECURSIVE MatchSeq(_, _, _, _)
RECURSIVE MatchNode(_, _, _, _)
RECURSIVE MatchAlts(_, _, _, _)
RECURSIVE MatchRep(_, _, _, _, _, _)
RECURSIVE Chain(_, _, _)
RECURSIVE ChainRep(_, _, _, _)

\* The outcomes of `nodes` continued from each outcome of rs, in order.
Chain(rs, nodes, s) ==
    IF rs = <<>> THEN <<>>
    ELSE MatchSeq(nodes, s, Head(rs).pos, Head(rs).caps)
            \o Chain(Tail(rs), nodes, s)

\* The outcomes of matching the concatenation `nodes` at offset pos of s.
MatchSeq(nodes, s, pos, caps) ==
    IF nodes = <<>> THEN << [pos |-> pos, caps |-> caps] >>
    ELSE Chain(MatchNode(Head(nodes), s, pos, caps), Tail(nodes), s)

\* The outcomes of the alternatives, the leftmost first.
MatchAlts(alts, s, pos, caps) ==
    IF alts = <<>> THEN <<>>
    ELSE MatchSeq(Head(alts), s, pos, caps)
            \o MatchAlts(Tail(alts), s, pos, caps)

\* After one iteration of a repetition ended in each outcome of rs: the
\* outcomes of going on (when the repetition may go on).
ChainRep(rs, many, body, s) ==
    IF rs = <<>> THEN <<>>
    ELSE (IF many
          THEN MatchRep(body, 0, TRUE, s, Head(rs).pos, Head(rs).caps)
          ELSE << Head(rs) >>)
            \o ChainRep(Tail(rs), many, body, s)

\* Greedy repetition: one more iteration (that consumes something) is
\* tried before stopping.
MatchRep(body, lo, many, s, pos, caps) ==
    ChainRep(SelectSeq(MatchSeq(body, s, pos, caps), LAMBDA r: r.pos > pos),
             many, body, s)
        \o (IF lo = 0 THEN << [pos |-> pos, caps |-> caps] >> ELSE <<>>)

\* The outcomes rs of a group that started at pos, with the group recorded.
Captured(rs, idx, s, pos) ==
    [i \in 1..Len(rs) |->
        [pos  |-> rs[i].pos,
         caps |-> IF idx = 0 THEN rs[i].caps
                  ELSE [rs[i].caps EXCEPT ![idx] =
                          [has |-> TRUE, s |-> SubSeq(s, pos + 1, rs[i].pos)]]]]

MatchNode(n, s, pos, caps) ==
    CASE n.k = "set" ->
            IF pos < Len(s) /\ ((s[pos + 1] \in n.cs) # n.neg)
            THEN << [pos |-> pos + 1, caps |-> caps] >>
            ELSE <<>>
      [] n.k = "bol" ->
            IF pos = 0 THEN << [pos |-> pos, caps |-> caps] >> ELSE <<>>
      [] n.k = "eol" ->
            IF pos = Len(s) \/ (pos = Len(s) - 1 /\ s[Len(s)] = NL)
            THEN << [pos |-> pos, caps |-> caps] >>
            ELSE <<>>
      [] n.k = "rep" ->
            MatchRep(n.alts[1], n.lo, n.many, s, pos, caps)
      [] n.k = "grp" ->
            Captured(MatchAlts(n.alts, s, pos, caps), n.idx, s, pos)

NoMatch == [matched |-> FALSE, start |-> 0, end |-> 0, groups |-> <<>>]

RECURSIVE SearchFrom(_, _, _)
RECURSIVE SearchAt(_, _, _, _)
\* re.search from the offsets start, start + 1, ...: the first offset at
\* which the pattern matches, with the groups of its first outcome.
SearchFrom(re, s, start) ==
    IF start > Len(s) THEN NoMatch
    ELSE SearchAt(re, s, start,
                  MatchSeq(re.nodes, s, start, [i \in 1..re.groups |-> NoCap]))

\* rs are the outcomes of the pattern at the offset start.
SearchAt(re, s, start, rs) ==
    IF rs # <<>>
    THEN [matched |-> TRUE, start |-> start, end |-> Head(rs).pos,
          groups |-> Head(rs).caps]
    ELSE SearchFrom(re, s, start + 1)

\* compiled.search(s)
Search(re, s) == SearchFrom(re, s, 0)

RECURSIVE FindAllFrom(_, _, _)
RECURSIVE FindAllNext(_, _, _)
FindAllFrom(re, s, start) == FindAllNext(re, s, SearchFrom(re, s, start))

\* m is the match found; the search goes on after it.
FindAllNext(re, s, m) ==
    IF ~m.matched THEN <<>>
    ELSE << SubSeq(s, m.start + 1, m.end) >>
            \o FindAllFrom(re, s, IF m.end = m.start THEN m.end + 1 ELSE m.end)

\* compiled.findall(s), for a pattern without capturing groups
FindAll(re, s) == FindAllFrom(re, s, 0)

(***************************************************************************)
(* Values handed to callbacks: a str, an int, or None (a group of a regex  *)
(* route that took no part in the match).                                  *)
(***************************************************************************)
StrValue(s) == [t |-> "str", s |-> s, n |-> 0]

IntValue(n) == [t |-> "int", s |-> <<>>, n |-> n]

NoneValue == [t |-> "None", s |-> <<>>, n |-> 0]

DigitValue(c) ==
    CASE c = "0" -> 0 [] c = "1" -> 1 [] c = "2" -> 2 [] c = "3" -> 3
      [] c = "4" -> 4 [] c = "5" -> 5 [] c = "6" -> 6 [] c = "7" -> 7
      [] c = "8" -> 8 [] c = "9" -> 9

RECURSIVE DecimalValue(_)
DecimalValue(s) ==
    IF s = <<>> THEN 0
    ELSE 10 * DecimalValue(SubSeq(s, 1, Len(s) - 1)) + DigitValue(s[Len(s)])

\* int(s) for the texts the int, +int and -int types let through.
int(s) ==
    IF s # <<>> /\ s[1] = "-" THEN 0 - DecimalValue(Tail(s))
    ELSE DecimalValue(s)

\* An empty dict.
EmptyDict == [x \in {} |-> x]

\* d[k] = v
SetItem(d, k, v) == [x \in DOMAIN d \cup {k} |-> IF x = k THEN v ELSE d[x]]

\* A defaultdict after d[k] was evaluated: a missing key is created.
Touch(d, k, default) == IF k \in DOMAIN d THEN d ELSE SetItem(d, k, default)

\* What resolve returns when no route matches.
None == [found |-> FALSE, callback |-> 0, args |-> <<>>, kwargs |-> EmptyDict]

Found(callback, args, kwargs) ==
    [found |-> TRUE, callback |-> callback, args |-> args, kwargs |-> kwargs]

(***************************************************************************)
(* class Wildcard                                                          *)
(***************************************************************************)
TypeStr == <<"s", "t", "r">>
TypePath == <<"p", "a", "t", "h">>
TypeInt == <<"i", "n", "t">>
TypePlusInt == <<"+", "i", "n", "t">>
TypeMinusInt == <<"-", "i", "n", "t">>

_types_re_keys == {TypeStr, TypePath, TypeInt, TypePlusInt, TypeMinusInt}

\* Wildcard._types_re had `int` been ([0-9]+), which lets leading zeros
\* through.
_types_re_leading_zeros(type, idx) ==
    CASE type = TypeStr ->
            Group(idx, << << Rep(1, TRUE, << NotCharSet({"/"}) >>) >> >>)
      [] type = TypePath ->
            Group(idx, << << Rep(1, TRUE, << Dot >>) >> >>)
      [] type = TypeInt ->
            Group(idx, << << Rep(1, TRUE, << CharSet(Digits) >>) >> >>)
      [] type = TypePlusInt ->
            Group(idx, << << CharSet(NonZeroDigits),
                             Rep(0, TRUE, << CharSet(Digits) >>) >> >>)
      [] type = TypeMinusInt ->
            Group(idx, << << CharSet({"0"}) >>,
                          << Rep(0, FALSE, << CharSet({"-"}) >>),
                             CharSet(NonZeroDigits),
                             Rep(0, TRUE, << CharSet(Digits) >>) >> >>)

\* Wildcard._types_re[type], as the capturing group number idx.
_types_re(type, idx) ==
    CASE type = TypeStr ->
            Group(idx, << << Rep(1, TRUE, << NotCharSet({"/"}) >>) >> >>)
      [] type = TypePath ->
            Group(idx, << << Rep(1, TRUE, << Dot >>) >> >>)
      [] type = TypeInt ->
            Group(idx, << << CharSet({"0"}) >>,
                          << CharSet(NonZeroDigits),
                             Rep(0, TRUE, << CharSet(Digits) >>) >> >>)
      [] type = TypePlusInt ->
            Group(idx, << << CharSet(NonZeroDigits),
                             Rep(0, TRUE, << CharSet(Digits) >>) >> >>)
      [] type = TypeMinusInt ->
            Group(idx, << << CharSet({"0"}) >>,
                          << Rep(0, FALSE, << CharSet({"-"}) >>),
                             CharSet(NonZeroDigits),
                             Rep(0, TRUE, << CharSet(Digits) >>) >> >>)

\* ^(?:[^\d\W]\w*|!|)$
_name_re ==
    [nodes |-> << Bol,
                  Group(0, << << CharSet(WordChars \ Digits),
                                 Rep(0, TRUE, << CharSet(WordChars) >>) >>,
                              << CharSet({"!"}) >>,
                              <<>> >>),
                  Eol >>,
     groups |-> 0]

\* The two checks of Wildcard.__init__ on self.name and self._type.
Wildcard_check(name, type) ==
    IF ~Search(_name_re, name).matched
    THEN [ok |-> FALSE, exc |-> "RouteError", name |-> name, type |-> type]
    ELSE IF type \notin _types_re_keys
    THEN [ok |-> FALSE, exc |-> "RouteError", name |-> name, type |-> type]
    ELSE [ok |-> TRUE, exc |-> "", name |-> name, type |-> type]

\* tokens = spec[1:-1].split(':', 1), `inner` being spec[1:-1] and colon
\* the index of its first ':' (0 when it has none); an empty or missing
\* type is 'str'.
Wildcard_split(inner, colon) ==
    Wildcard_check(
        IF colon = 0 THEN inner ELSE SubSeq(inner, 1, colon - 1),
        IF colon = 0 \/ colon = Len(inner) THEN TypeStr ELSE Drop(inner, colon))

Wildcard_inner(inner) == Wildcard_split(inner, IndexOf(inner, ":", 1))

\* Wildcard(spec): the wildcard, or the RouteError it raises.
Wildcard_init(spec) == Wildcard_inner(SubSeq(spec, 2, Len(spec) - 1))

\* Wildcard.value
Wildcard_value(type, value) ==
    IF type \in {TypeStr, TypePath} THEN StrValue(value)
    ELSE IntValue(int(value))

(***************************************************************************)
(* class WildcardRoute                                                     *)
(***************************************************************************)
\* <[^<>/]*>
_wildcard_re ==
    [nodes |-> << CharSet({"<"}),
                  Rep(0, TRUE, << NotCharSet({"<", ">", "/"}) >>),
                  CharSet({">"}) >>,
     groups |-> 0]

\* <[^<>/]*>|[^<>/]+|/|<|>
_tokenize_re ==
    [nodes |-> << Group(0, << << CharSet({"<"}),
                                 Rep(0, TRUE, << NotCharSet({"<", ">", "/"}) >>),
                                 CharSet({">"}) >>,
                              << Rep(1, TRUE, << NotCharSet({"<", ">", "/"}) >>) >>,
                              << CharSet({"/"}) >>,
                              << CharSet({"<"}) >>,
                              << CharSet({">"}) >> >>) >>,
     groups |-> 0]

\* WildcardRoute.like
WildcardRoute_like(pattern) == Search(_wildcard_re, pattern).matched

\* WildcardRoute.tokens
WildcardRoute_tokens(pattern) == FindAll(_tokenize_re, pattern)

RECURSIVE WildcardRoute_init_loop(_, _, _)
RECURSIVE WildcardRoute_init_wildcard(_, _, _, _)

\* The for loop of WildcardRoute.__init__ over the tokens left, with the
\* regex fragments and the wildcards collected so far.
WildcardRoute_init_loop(tokens, re, wildcards) ==
    IF tokens = <<>>
    THEN [ok |-> TRUE, exc |-> "", re |-> re, wildcards |-> wildcards]
    ELSE IF /\ Head(tokens) # <<>>
            /\ Head(tokens)[1] = "<"
            /\ Head(tokens)[Len(Head(tokens))] = ">"
    THEN WildcardRoute_init_wildcard(Wildcard_init(Head(tokens)), Tail(tokens),
                                     re, wildcards)
    ELSE WildcardRoute_init_loop(Tail(tokens), re \o Literal(Head(tokens)),
                                 wildcards)

\* The loop body for a wildcard token, w being Wildcard(token).
WildcardRoute_init_wildcard(w, tokens, re, wildcards) ==
    IF ~w.ok
    THEN [ok |-> FALSE, exc |-> w.exc, re |-> <<>>, wildcards |-> <<>>]
    ELSE WildcardRoute_init_loop(
             tokens,
             Append(re, _types_re(w.type, Len(wildcards) + 1)),
             Append(wildcards, [name |-> w.name, type |-> w.type]))

\* The route made of what the loop collected: self._re is
\* re.compile('^' + ''.join(self._re) + '$').
WildcardRoute_compiled(r, callback) ==
    [ok        |-> r.ok,
     exc       |-> r.exc,
     re        |-> [nodes  |-> << Bol >> \o r.re \o << Eol >>,
                    groups |-> Len(r.wildcards)],
     wildcards |-> r.wildcards,
     callback  |-> callback]

\* WildcardRoute(pattern, callback): the route, or the error raised.
WildcardRoute_init(pattern, callback) ==
    WildcardRoute_compiled(
        WildcardRoute_init_loop(WildcardRoute_tokens(pattern), <<>>, <<>>),
        callback)

RECURSIVE WildcardRoute_match_loop_unaligned(_, _, _, _, _)
\* The loop of WildcardRoute.match had it counted only the wildcards that
\* yield a value, so that a `!` wildcard did not consume its group.
WildcardRoute_match_loop_unaligned(wildcards, groups, i, args, kwargs) ==
    IF i > Len(wildcards) THEN [args |-> args, kwargs |-> kwargs]
    ELSE IF wildcards[i].name = << "!" >>
    THEN WildcardRoute_match_loop_unaligned(wildcards, groups, i + 1, args,
                                            kwargs)
    ELSE IF wildcards[i].name = <<>>
    THEN WildcardRoute_match_loop_unaligned(
             wildcards, groups, i + 1,
             Append(args,
                    Wildcard_value(
                        wildcards[i].type,
                        groups[i - Cardinality({j \in 1..(i - 1):
                                   wildcards[j].name = << "!" >>})].s)),
             kwargs)
    ELSE WildcardRoute_match_loop_unaligned(
             wildcards, groups, i + 1, args,
             SetItem(kwargs, wildcards[i].name,
                     Wildcard_value(
                         wildcards[i].type,
                         groups[i - Cardinality({j \in 1..(i - 1):
                                    wildcards[j].name = << "!" >>})].s)))

RECURSIVE WildcardRoute_match_loop(_, _, _, _, _)
\* The for loop of WildcardRoute.match from the i-th wildcard on.
WildcardRoute_match_loop(wildcards, groups, i, args, kwargs) ==
    IF i > Len(wildcards) THEN [args |-> args, kwargs |-> kwargs]
    ELSE IF wildcards[i].name = << "!" >>
    THEN WildcardRoute_match_loop(wildcards, groups, i + 1, args, kwargs)
    ELSE IF wildcards[i].name = <<>>
    THEN WildcardRoute_match_loop(
             wildcards, groups, i + 1,
             Append(args, Wildcard_value(wildcards[i].type, groups[i].s)),
             kwargs)
    ELSE WildcardRoute_match_loop(
             wildcards, groups, i + 1, args,
             SetItem(kwargs, wildcards[i].name,
                     Wildcard_value(wildcards[i].type, groups[i].s)))

\* The value returned once the loop is over.
CallbackData(callback, r) == Found(callback, r.args, r.kwargs)

\* WildcardRoute.match, `match` being self._re.search(path).
WildcardRoute_matched(route, match) ==
    IF ~match.matched THEN None
    ELSE CallbackData(route.callback,
                      WildcardRoute_match_loop(route.wildcards, match.groups,
                                               1, <<>>, EmptyDict))

\* WildcardRoute.match
WildcardRoute_match(route, path) ==
    WildcardRoute_matched(route, Search(route.re, path))

(***************************************************************************)
(* class RegexRoute                                                        *)
(* re.compile is modelled for patterns built from `(`, `)`, `.`, `*`,     *)
(* `^`, `$` and characters that stand for themselves; the patterns given  *)
(* to the model hold no other metacharacter and no named group, and no    *)
(* repeated group that can match the empty string.                        *)
(***************************************************************************)
\* \(.*\)
_group_re ==
    [nodes |-> << CharSet({"("}), Rep(0, TRUE, << Dot >>), CharSet({")"}) >>,
     groups |-> 0]

\* RegexRoute.like
RegexRoute_like(pattern) == Search(_group_re, pattern).matched

ParseError == [ok |-> FALSE, nodes |-> <<>>, next |-> 0, groups |-> 0]

RECURSIVE re_parse(_, _, _, _, _)
RECURSIVE re_parse_group(_, _, _, _, _)
\* re.compile's parser on p from index i, inside `depth` open groups, with
\* g groups opened so far and the nodes acc of the current group.  It
\* stops at the `)` closing the current group or at the end of p.
re_parse(p, i, depth, g, acc) ==
    IF i > Len(p)
    THEN IF depth > 0 THEN ParseError   \* missing ), unterminated subpattern
         ELSE [ok |-> TRUE, nodes |-> acc, next |-> i, groups |-> g]
    ELSE CASE p[i] = ")" ->
                IF depth = 0 THEN ParseError   \* unbalanced parenthesis
                ELSE [ok |-> TRUE, nodes |-> acc, next |-> i, groups |-> g]
           [] p[i] = "(" ->
                re_parse_group(p, depth, g + 1, acc,
                               re_parse(p, i + 1, depth + 1, g + 1, <<>>))
           [] p[i] = "*" ->
                IF acc = <<>> \/ acc[Len(acc)].k \in {"bol", "eol"}
                THEN ParseError                \* nothing to repeat
                ELSE IF acc[Len(acc)].k = "rep"
                THEN ParseError                \* multiple repeat
                ELSE re_parse(p, i + 1, depth, g,
                              [acc EXCEPT ![Len(acc)] = Rep(0, TRUE, << @ >>)])
           [] p[i] = "." -> re_parse(p, i + 1, depth, g, Append(acc, Dot))
           [] p[i] = "^" -> re_parse(p, i + 1, depth, g, Append(acc, Bol))
           [] p[i] = "$" -> re_parse(p, i + 1, depth, g, Append(acc, Eol))
           [] OTHER      -> re_parse(p, i + 1, depth, g,
                                     Append(acc, CharSet({p[i]})))

\* The parser after the group number idx was parsed with the result sub.
re_parse_group(p, depth, idx, acc, sub) ==
    IF ~sub.ok THEN ParseError
    ELSE re_parse(p, sub.next + 1, depth, sub.groups,
                  Append(acc, Group(idx, << sub.nodes >>)))

\* re.compile(pattern): the compiled pattern, or re.error
re_compile(pattern) == re_parse(pattern, 1, 0, 0, <<>>)

\* The route of the compiled pattern c had RegexRoute.__init__ wrapped
\* re.error in a RouteError.
RegexRoute_compiled_RouteError(c, callback) ==
    [ok       |-> c.ok,
     exc      |-> IF c.ok THEN "" ELSE "RouteError",
     re       |-> [nodes |-> c.nodes, groups |-> c.groups],
     callback |-> callback]

\* The route of the compiled pattern c: re.error is not caught.
RegexRoute_compiled(c, callback) ==
    [ok       |-> c.ok,
     exc      |-> IF c.ok THEN "" ELSE "re.error",
     re       |-> [nodes |-> c.nodes, groups |-> c.groups],
     callback |-> callback]

\* RegexRoute(pattern, callback): the route, or the error raised.
RegexRoute_init(pattern, callback) ==
    RegexRoute_compiled(re_compile(pattern), callback)

\* RegexRoute.match, `match` being self._re.search(path): no group is
\* named, so every group is positional.
RegexRoute_matched(route, match) ==
    IF ~match.matched THEN None
    ELSE Found(route.callback,
               [i \in 1..route.re.groups |->
                   IF match.groups[i].has THEN StrValue(match.groups[i].s)
                   ELSE NoneValue],
               EmptyDict)

\* RegexRoute.match
RegexRoute_match(route, path) ==
    RegexRoute_matched(route, Search(route.re, path))

(***************************************************************************)
(* class Router                                                            *)
(***************************************************************************)
PrefixRegex == << "r", "e", "g", "e", "x", ":" >>
PrefixWildcard == << "w", "i", "l", "d", "c", "a", "r", "d", ":" >>
PrefixLiteral == << "l", "i", "t", "e", "r", "a", "l", ":" >>

\* _normalize_pattern had it tested WildcardRoute.like before RegexRoute.like.
_normalize_pattern_wildcard_first(pattern) ==
    IF StartsWith(pattern, PrefixRegex)
    THEN [type |-> "regex", pattern |-> Drop(pattern, Len(PrefixRegex))]
    ELSE IF StartsWith(pattern, PrefixWildcard)
    THEN [type |-> "wildcard", pattern |-> Drop(pattern, Len(PrefixWildcard))]
    ELSE IF StartsWith(pattern, PrefixLiteral)
    THEN [type |-> "literal", pattern |-> Drop(pattern, Len(PrefixLiteral))]
    ELSE IF WildcardRoute_like(pattern)
    THEN [type |-> "wildcard", pattern |-> pattern]
    ELSE IF RegexRoute_like(pattern)
    THEN [type |-> "regex", pattern |-> pattern]
    ELSE [type |-> "literal", pattern |-> pattern]

\* Router._normalize_pattern
_normalize_pattern(pattern) ==
    IF StartsWith(pattern, PrefixRegex)
    THEN [type |-> "regex", pattern |-> Drop(pattern, Len(PrefixRegex))]
    ELSE IF StartsWith(pattern, PrefixWildcard)
    THEN [type |-> "wildcard", pattern |-> Drop(pattern, Len(PrefixWildcard))]
    ELSE IF StartsWith(pattern, PrefixLiteral)
    THEN [type |-> "literal", pattern |-> Drop(pattern, Len(PrefixLiteral))]
    ELSE IF RegexRoute_like(pattern)
    THEN [type |-> "regex", pattern |-> pattern]
    ELSE IF WildcardRoute_like(pattern)
    THEN [type |-> "wildcard", pattern |-> pattern]
    ELSE [type |-> "literal", pattern |-> pattern]

\* Router.add had it kept the first handler of a literal path
\* (dict.setdefault) instead of overwriting it.
add_setdefault(method, pattern, callback) ==
    LET n == _normalize_pattern(pattern)
        d == Touch(_literal, method, EmptyDict)
    IN  CASE n.type = "literal" ->
               [literal  |-> IF n.pattern \in DOMAIN d[method] THEN d
                             ELSE [d EXCEPT ![method] =
                                      SetItem(@, n.pattern, callback)],
                wildcard |-> _wildcard,
                regex    |-> _regex,
                exc      |-> ""]
          [] n.type = "wildcard" ->
               LET route == WildcardRoute_init(n.pattern, callback)
                   dict  == Touch(_wildcard, method, <<>>)
               IN  [literal  |-> _literal,
                    wildcard |-> IF route.ok
                                 THEN [dict EXCEPT ![method] = Append(@, route)]
                                 ELSE dict,
                    regex    |-> _regex,
                    exc      |-> route.exc]
          [] n.type = "regex" ->
               LET route == RegexRoute_init(n.pattern, callback)
                   dict  == Touch(_regex, method, <<>>)
               IN  [literal  |-> _literal,
                    wildcard |-> _wildcard,
                    regex    |-> IF route.ok
                                 THEN [dict EXCEPT ![method] = Append(@, route)]
                                 ELSE dict,
                    exc      |-> route.exc]

\* Router.add had it appended the route object before the constructor's
\* checks could reject the pattern.
add_store_before_check(method, pattern, callback) ==
    LET n == _normalize_pattern(pattern)
    IN  CASE n.type = "literal" ->
               [literal  |-> [Touch(_literal, method, EmptyDict)
                                 EXCEPT ![method] = SetItem(@, n.pattern, callback)],
                wildcard |-> _wildcard,
                regex    |-> _regex,
                exc      |-> ""]
          [] n.type = "wildcard" ->
               LET route == WildcardRoute_init(n.pattern, callback)
                   dict  == Touch(_wildcard, method, <<>>)
               IN  [literal  |-> _literal,
                    wildcard |-> [dict EXCEPT ![method] = Append(@, route)],
                    regex    |-> _regex,
                    exc      |-> route.exc]
          [] n.type = "regex" ->
               LET route == RegexRoute_init(n.pattern, callback)
                   dict  == Touch(_regex, method, <<>>)
               IN  [literal  |-> _literal,
                    wildcard |-> _wildcard,
                    regex    |-> [dict EXCEPT ![method] = Append(@, route)],
                    exc      |-> route.exc]

\* Router.add: the three dicts after the call and the exception raised, if
\* any.  In `self._wildcard[method].append(WildcardRoute(pat, callback))`
\* Python evaluates self._wildcard[method] before it constructs the route,
\* so the defaultdict creates the key even when the constructor raises.
add(method, pattern, callback) ==
    LET n == _normalize_pattern(pattern)
    IN  CASE n.type = "literal" ->
               [literal  |-> [Touch(_literal, method, EmptyDict)
                                 EXCEPT ![method] = SetItem(@, n.pattern, callback)],
                wildcard |-> _wildcard,
                regex    |-> _regex,
                exc      |-> ""]
          [] n.type = "wildcard" ->
               LET route == WildcardRoute_init(n.pattern, callback)
                   dict  == Touch(_wildcard, method, <<>>)
               IN  [literal  |-> _literal,
                    wildcard |-> IF route.ok
                                 THEN [dict EXCEPT ![method] = Append(@, route)]
                                 ELSE dict,
                    regex    |-> _regex,
                    exc      |-> route.exc]
          [] n.type = "regex" ->
               LET route == RegexRoute_init(n.pattern, callback)
                   dict  == Touch(_regex, method, <<>>)
               IN  [literal  |-> _literal,
                    wildcard |-> _wildcard,
                    regex    |-> IF route.ok
                                 THEN [dict EXCEPT ![method] = Append(@, route)]
                                 ELSE dict,
                    exc      |-> route.exc]

RECURSIVE WildcardScan(_, _, _)
\* `for route in reversed(routes)` over wildcard routes, from index i down.
WildcardScan(routes, i, path) ==
    IF i = 0 THEN None
    ELSE LET callback_data == WildcardRoute_match(routes[i], path)
         IN  IF callback_data.found THEN callback_data
             ELSE WildcardScan(routes, i - 1, path)

RECURSIVE RegexScan(_, _, _)
\* `for route in reversed(routes)` over regex routes, from index i down.
RegexScan(routes, i, path) ==
    IF i = 0 THEN None
    ELSE LET callback_data == RegexRoute_match(routes[i], path)
         IN  IF callback_data.found THEN callback_data
             ELSE RegexScan(routes, i - 1, path)

RECURSIVE WildcardScanForward(_, _, _)
\* `for route in routes`, without reversed(), from index i up.
WildcardScanForward(routes, i, path) ==
    IF i > Len(routes) THEN None
    ELSE LET callback_data == WildcardRoute_match(routes[i], path)
         IN  IF callback_data.found THEN callback_data
             ELSE WildcardScanForward(routes, i + 1, path)

\* _resolve_non_literal_route had it scanned the wildcard routes in
\* registration order.
_resolve_non_literal_route_forward(method, path) ==
    LET w == IF method \in DOMAIN _wildcard
             THEN WildcardScanForward(_wildcard[method], 1, path)
             ELSE None
    IN  IF w.found THEN w
        ELSE IF method \in DOMAIN _regex
        THEN RegexScan(_regex[method], Len(_regex[method]), path)
        ELSE None

\* _resolve_non_literal_route had it looped over (self._regex,
\* self._wildcard).
_resolve_non_literal_route_regex_first(method, path) ==
    LET r == IF method \in DOMAIN _regex
             THEN RegexScan(_regex[method], Len(_regex[method]), path)
             ELSE None
    IN  IF r.found THEN r
        ELSE IF method \in DOMAIN _wildcard
        THEN WildcardScan(_wildcard[method], Len(_wildcard[method]), path)
        ELSE None

\* _resolve_non_literal_route had the routes not been kept per method: any
\* method's wildcard or regex route may answer.
_resolve_non_literal_route_any_method(method, path) ==
    LET hits == {WildcardScan(_wildcard[m], Len(_wildcard[m]), path):
                    m \in DOMAIN _wildcard}
                \cup {RegexScan(_regex[m], Len(_regex[m]), path):
                        m \in DOMAIN _regex}
    IN  IF \E h \in hits: h.found THEN CHOOSE h \in hits: h.found
        ELSE None

\* Router._resolve_non_literal_route
_resolve_non_literal_route(method, path) ==
    LET w == IF method \in DOMAIN _wildcard
             THEN WildcardScan(_wildcard[method], Len(_wildcard[method]), path)
             ELSE None
    IN  IF w.found THEN w
        ELSE IF method \in DOMAIN _regex
        THEN RegexScan(_regex[method], Len(_regex[method]), path)
        ELSE None

\* resolve had it tried the wildcard and regex routes before the literal
\* index.
resolve_literal_last(method, path) ==
    LET r == _resolve_non_literal_route(method, path)
    IN  IF r.found THEN r
        ELSE IF method \in DOMAIN _literal /\ path \in DOMAIN _literal[method]
        THEN Found(_literal[method][path], <<>>, EmptyDict)
        ELSE None

\* Router.resolve: the value returned.
resolve(method, path) ==
    IF method \in DOMAIN _literal /\ path \in DOMAIN _literal[method]
    THEN Found(_literal[method][path], <<>>, EmptyDict)
    ELSE _resolve_non_literal_route(method, path)

\* resolve had it indexed the defaultdicts without testing `method in` first.
resolve_dicts_unguarded(method, path) ==
    [literal  |-> Touch(_literal, method, EmptyDict),
     wildcard |-> Touch(_wildcard, method, <<>>),
     regex    |-> Touch(_regex, method, <<>>)]

\* Router.resolve: the three dicts after the call.  `method in d` creates no
\* key; d[method] is evaluated only where `method in d` held.
resolve_dicts(method, path) ==
    LET hit == method \in DOMAIN _literal /\ path \in DOMAIN _literal[method]
        w   == IF method \in DOMAIN _wildcard
               THEN WildcardScan(_wildcard[method], Len(_wildcard[method]), path)
               ELSE None
    IN  [literal  |-> IF hit THEN Touch(_literal, method, EmptyDict)
                      ELSE _literal,
         wildcard |-> IF ~hit /\ method \in DOMAIN _wildcard
                      THEN Touch(_wildcard, method, <<>>)
                      ELSE _wildcard,
         regex    |-> IF ~hit /\ ~w.found /\ method \in DOMAIN _regex
                      THEN Touch(_regex, method, <<>>)
                      ELSE _regex]

\* Router.contains_method
contains_method(method) ==
    method \in (DOMAIN _literal \cup DOMAIN _wildcard \cup DOMAIN _regex)

(***************************************************************************)
(* The calls made on a Router                                              *)
(***************************************************************************)
MaxAdds == 2

Methods == {"GET", "DELETE"}

PatA == << "/", "a" >>
PatLiteralA == PrefixLiteral \o PatA
PatX == << "/", "<", "x", ">" >>
PatInt == << "/", "<", ":", "i", "n", "t", ">" >>
PatRegexAll == << "/", "(", ".", "*", ")" >>
PatRegexA == << "(", "a", ")" >>
PatBadName == << "/", "<", "1", "a", ">" >>
PatBadRegex == << "(", "*", ")" >>

Patterns ==
    {PatA, PatLiteralA, PatX, PatInt, PatRegexAll, PatRegexA, PatBadName,
     PatBadRegex}

PathA == << "/", "a" >>
Path7 == << "/", "7" >>
PathAB == << "/", "a", "/", "b" >>

Paths == {PathA, Path7, PathAB}

Call(op, method, text, callback, exc, result) ==
    [op |-> op, method |-> method, text |-> text, callback |-> callback,
     exc |-> exc, result |-> result]

\* Router.__init__
Init ==
    /\ _literal = EmptyDict
    /\ _wildcard = EmptyDict
    /\ _regex = EmptyDict
    /\ call = Call("init", "", <<>>, 0, "", None)
    /\ history = <<>>

\* The number of routes that the tier d holds for the method m.
NumEntries(d, m) == IF m \in DOMAIN d THEN Cardinality(DOMAIN d[m]) ELSE 0

\* What the router answers and holds in the current state: the result of
\* resolve for every method and path, and the size of every tier of every
\* method.
Snapshot ==
    [resolve |-> [m \in Methods, p \in Paths |-> resolve(m, p)],
     entries |-> [m \in Methods |->
                     [literal  |-> NumEntries(_literal, m),
                      wildcard |-> NumEntries(_wildcard, m),
                      regex    |-> NumEntries(_regex, m)]]]

\* router.add(method, pattern, callback); the n-th call registers callback n.
\* The history keeps the call with the kind and the normalized pattern that
\* add computed for it, and the snapshot of the router before the call.
Add(method, pattern) ==
    LET callback == Len(history) + 1
        r == add(method, pattern, callback)
        n == _normalize_pattern(pattern)
    IN  /\ _literal' = r.literal
        /\ _wildcard' = r.wildcard
        /\ _regex' = r.regex
        /\ call' = Call("add", method, pattern, callback, r.exc, None)
        /\ history' = Append(history,
                             [method |-> method, pattern |-> pattern,
                              type |-> n.type, pat |-> n.pattern,
                              callback |-> callback, exc |-> r.exc,
                              before |-> Snapshot])

\* router.resolve(method, path)
Resolve(method, path) ==
    LET d == resolve_dicts(method, path)
    IN  /\ _literal' = d.literal
        /\ _wildcard' = d.wildcard
        /\ _regex' = d.regex
        /\ call' = Call("resolve", method, path, 0, "", resolve(method, path))
        /\ UNCHANGED history

\* router.contains_method(method)
ContainsMethod(method) ==
    /\ call' = Call("contains_method", method, <<>>, 0, "",
                    contains_method(method))
    /\ UNCHANGED <<_literal, _wildcard, _regex, history>>

Next ==
    \/ /\ Len(history) < MaxAdds
       /\ \E method \in Methods, pattern \in Patterns: Add(method, pattern)
    \/ \E method \in Methods, path \in Paths: Resolve(method, path)
    \/ \E method \in Methods: ContainsMethod(method)

Spec == Init /\ [][Next]_vars

(***************************************************************************)
(* What the calls made so far registered, read from the history alone.     *)
(***************************************************************************)
\* The calls that registered a literal route for method m and path p.
LiteralAdds(m, p) ==
    {i \in 1..Len(history):
        /\ history[i].method = m
        /\ history[i].type = "literal"
        /\ history[i].pat = p}

\* What the wildcard route registered by the i-th call returns for path p.
WildcardAnswer(i, p) ==
    WildcardRoute_match(WildcardRoute_init(history[i].pat, history[i].callback),
                        p)

\* The calls that registered a wildcard route for method m that matches p.
WildcardAdds(m, p) ==
    {i \in 1..Len(history):
        /\ history[i].method = m
        /\ history[i].exc = ""
        /\ history[i].type = "wildcard"
        /\ WildcardAnswer(i, p).found}

\* What the regex route registered by the i-th call returns for path p.
RegexAnswer(i, p) ==
    RegexRoute_match(RegexRoute_init(history[i].pat, history[i].callback), p)

\* The calls that registered a regex route for method m that matches p.
RegexAdds(m, p) ==
    {i \in 1..Len(history):
        /\ history[i].method = m
        /\ history[i].exc = ""
        /\ history[i].type = "regex"
        /\ RegexAnswer(i, p).found}

Last(S) == CHOOSE i \in S: \A j \in S: j <= i

\* The last call was resolve(m, p).
Resolved(m, p) == call.op = "resolve" /\ call.method = m /\ call.text = p

(***************************************************************************)
(* C1: for every method m and path p for which a literal route was         *)
(* registered, resolve(m, p) returns a handler registered for that literal *)
(* route, with no positional and no named argument, whatever wildcard or   *)
(* regex routes of m match p and whenever they were registered.            *)
(***************************************************************************)
C1_LiteralPrecedence ==
    \A m \in Methods, p \in Paths:
        LET lit == LiteralAdds(m, p)
            r   == resolve(m, p)
        IN  lit # {} =>
                /\ r.found
                /\ r.callback \in {history[i].callback: i \in lit}
                /\ r.args = <<>>
                /\ r.kwargs = EmptyDict
                /\ Resolved(m, p) => call.result = r

\* resolve("GET", "/a") was called after "/a" and then "/<x>", which matches
\* "/a" too and is the more recent route, were registered for GET.
C1_Witness ==
    /\ Len(history) = 2
    /\ history[1].method = "GET" /\ history[1].pattern = PatA
    /\ history[2].method = "GET" /\ history[2].pattern = PatX
    /\ Resolved("GET", PathA)
    /\ WildcardAdds("GET", PathA) = {2}
    /\ call.result.callback = 1

(***************************************************************************)
(* C2: when p is no literal key of m and wildcard routes of m match p,     *)
(* resolve(m, p) returns what the most recently registered of them returns *)
(* for p: its handler and its extracted arguments.                         *)
(***************************************************************************)
C2_LastWildcardWins ==
    \A m \in Methods, p \in Paths:
        LET wild == WildcardAdds(m, p)
            r    == resolve(m, p)
        IN  (LiteralAdds(m, p) = {} /\ wild # {}) =>
                /\ r = WildcardAnswer(Last(wild), p)
                /\ Resolved(m, p) => call.result = r

\* "/<:int>" was registered after "/<x>" for GET; both match "/7", and
\* resolve returned the second handler with the positional argument 7.
C2_Witness ==
    /\ Resolved("GET", Path7)
    /\ WildcardAdds("GET", Path7) = {1, 2}
    /\ history[1].pattern = PatX /\ history[2].pattern = PatInt
    /\ call.result = Found(2, << IntValue(7) >>, EmptyDict)

RouteStored(m) ==
    \/ m \in DOMAIN _literal /\ DOMAIN _literal[m] # {}
    \/ m \in DOMAIN _wildcard /\ Len(_wildcard[m]) > 0
    \/ m \in DOMAIN _regex /\ Len(_regex[m]) > 0

C4_ContainsMethodIffRouteStored ==
    /\ \A m \in Methods: contains_method(m) <=> RouteStored(m)
    /\ call.op = "contains_method" =>
          (call.result <=> RouteStored(call.method))

(***************************************************************************)
(* C5: when a literal pattern is registered more than once for the same    *)
(* method and normalized path, with or without the `literal:` prefix, the  *)
(* literal index holds the handler of the last registration for that path, *)
(* the index has one key per distinct path, and resolve returns the last   *)
(* handler.                                                                *)
(***************************************************************************)
C5_LiteralOverwrite ==
    \A m \in Methods:
        /\ \A p \in Paths:
              LET lit == LiteralAdds(m, p)
              IN  lit # {} =>
                      /\ m \in DOMAIN _literal /\ p \in DOMAIN _literal[m]
                      /\ _literal[m][p] = history[Last(lit)].callback
                      /\ resolve(m, p).callback = history[Last(lit)].callback
                      /\ Resolved(m, p) =>
                            call.result.callback = history[Last(lit)].callback
        /\ m \in DOMAIN _literal =>
              DOMAIN _literal[m]
                  = {history[i].pat:
                        i \in {j \in 1..Len(history):
                                 /\ history[j].method = m
                                 /\ history[j].type = "literal"}}

\* "/a" then "literal:/a" were registered for GET and resolve("GET", "/a")
\* returned the second handler.
C5_Witness ==
    /\ Len(history) = 2
    /\ history[1].method = "GET" /\ history[1].pattern = PatA
    /\ history[2].method = "GET" /\ history[2].pattern = PatLiteralA
    /\ DOMAIN _literal["GET"] = {PathA}
    /\ Resolved("GET", PathA)
    /\ call.result.callback = 2

(***************************************************************************)
(* C6: a call of resolve leaves the literal index, the wildcard sequences  *)
(* and the regex sequences as they were, so contains_method is unchanged   *)
(* for every method.                                                       *)
(***************************************************************************)
C6_ResolveReadOnly ==
    [][call'.op = "resolve" =>
          /\ _literal' = _literal
          /\ _wildcard' = _wildcard
          /\ _regex' = _regex
          /\ \A m \in Methods: contains_method(m)' = contains_method(m)]_vars

\* resolve was called for a method nothing was ever registered for, while
\* another method has routes, and the method is still not contained.
C6_Witness ==
    /\ call.op = "resolve"
    /\ ~call.result.found
    /\ \A i \in 1..Len(history): history[i].method # call.method
    /\ history # <<>>
    /\ ~contains_method(call.method)

(***************************************************************************)
(* C10: add fails with a RouteError whenever compiling the matcher fails,  *)
(* the unparseable regex included.                                         *)
(***************************************************************************)
C10_EveryFailureIsRouteError ==
    (call.op = "add" /\ call.exc # "") => call.exc = "RouteError"

\* C10 as amended: a wildcard token with an invalid name or type makes add
\* raise RouteError; an unparseable regex makes add raise re.error, which
\* is no RouteError; every other pattern is registered without an error.
C10_ErrorKinds ==
    \A i \in 1..Len(history):
        /\ history[i].pattern = PatBadName <=> history[i].exc = "RouteError"
        /\ history[i].pattern = PatBadRegex <=> history[i].exc = "re.error"
        /\ history[i].exc = "RouteError" => history[i].type = "wildcard"
        /\ history[i].exc = "re.error" => history[i].type = "regex"
        /\ history[i].exc \in {"", "RouteError", "re.error"}
        /\ (call.op = "add" /\ i = Len(history)) => call.exc = history[i].exc

\* add was called with the regex "(*)": it raised re.error.
C10_Witness ==
    /\ call.op = "add"
    /\ call.text = PatBadRegex
    /\ call.exc = "re.error"
    /\ history[Len(history)].type = "regex"

(***************************************************************************)
(* _normalize_pattern on every pattern made of an optional prefix, or two, *)
(* and a short body.                                                       *)
(***************************************************************************)
MaxBody == 4

ClassifyChars == {"(", ")", "<", ">", "/", "a", NL}

\* The strings over the characters A of length n at most.
Strings(A, n) == UNION {[1..k -> A]: k \in 0..n}

ClassifyPrefixes ==
    {<<>>, PrefixLiteral, PrefixWildcard, PrefixRegex,
     PrefixRegex \o PrefixLiteral, PrefixLiteral \o PrefixRegex,
     PrefixWildcard \o PrefixWildcard}

ClassifyInputs ==
    {prefix \o body:
        prefix \in ClassifyPrefixes, body \in Strings(ClassifyChars, MaxBody)}

InitNormalize ==
    /\ _literal = EmptyDict
    /\ _wildcard = EmptyDict
    /\ _regex = EmptyDict
    /\ history = <<>>
    /\ \E pattern \in ClassifyInputs:
          call = Call("pattern", "", pattern, 0, "", None)

\* Router._normalize_pattern(pattern)
Normalize ==
    /\ call.op = "pattern"
    /\ call' = Call("_normalize_pattern", "", call.text, 0, "",
                    _normalize_pattern(call.text))
    /\ UNCHANGED <<_literal, _wildcard, _regex, history>>

SpecNormalize == InitNormalize /\ [][Normalize]_vars

\* p holds a `(` followed later by a `)`.
HasParenPair(p) ==
    \E i, j \in 1..Len(p): i < j /\ p[i] = "(" /\ p[j] = ")"

\* p holds a `(` followed later, with no newline in between, by a `)`.
HasParenPairOnOneLine(p) ==
    \E i, j \in 1..Len(p):
        /\ i < j /\ p[i] = "(" /\ p[j] = ")"
        /\ \A k \in (i + 1)..(j - 1): p[k] # NL

\* p holds a token <...> with no `<`, `>` or `/` inside.
HasAngleToken(p) ==
    \E i, j \in 1..Len(p):
        /\ i < j /\ p[i] = "<" /\ p[j] = ">"
        /\ \A k \in (i + 1)..(j - 1): p[k] \notin {"<", ">", "/"}

\* The classification by the precedence of the claim, with `regexlike`
\* deciding what looks like a regex.
Classified(p, regexlike) ==
    CASE StartsWith(p, PrefixLiteral) ->
            [type |-> "literal", pattern |-> SubSeq(p, 9, Len(p))]
      [] StartsWith(p, PrefixWildcard) ->
            [type |-> "wildcard", pattern |-> SubSeq(p, 10, Len(p))]
      [] StartsWith(p, PrefixRegex) ->
            [type |-> "regex", pattern |-> SubSeq(p, 7, Len(p))]
      [] OTHER ->
            IF regexlike THEN [type |-> "regex", pattern |-> p]
            ELSE IF HasAngleToken(p) THEN [type |-> "wildcard", pattern |-> p]
            ELSE [type |-> "literal", pattern |-> p]

(***************************************************************************)
(* C7: a leading prefix fixes the kind and exactly that prefix is          *)
(* stripped; otherwise a pattern with a `(` followed later by a `)` is     *)
(* regex; otherwise a pattern with a token <...> is wildcard; otherwise it *)
(* is literal, and the unprefixed pattern is returned unchanged.           *)
(***************************************************************************)
C7_Classification ==
    call.op = "_normalize_pattern" =>
        call.result = Classified(call.text, HasParenPair(call.text))

\* C7 as amended: as above, but a pattern without prefix is regex when it
\* holds a `(` followed later, with no newline in between, by a `)`.
C7_ClassificationOnOneLine ==
    call.op = "_normalize_pattern" =>
        call.result = Classified(call.text, HasParenPairOnOneLine(call.text))

\* "<>()" holds an angle-bracket token and a parenthesis pair: it is regex.
C7_Witness ==
    /\ call.op = "_normalize_pattern"
    /\ call.text = << "<", ">", "(", ")" >>
    /\ call.result = [type |-> "regex", pattern |-> call.text]

(***************************************************************************)
(* One wildcard route: add("GET", pattern, 1) on a new Router, followed by *)
(* resolve("GET", path).                                                   *)
(***************************************************************************)
MaxWildcards == 2

\* The tokens of the patterns /t1/t2/...  with their names and types.
Token(text, name, type) == [text |-> text, name |-> name, type |-> type]

PairingTokens ==
    {Token(<< "<", "!", ">" >>, << "!" >>, TypeStr),
     Token(<< "<", ">" >>, <<>>, TypeStr),
     Token(<< "<", "x", ">" >>, << "x" >>, TypeStr),
     Token(<< "<", "y", ">" >>, << "y" >>, TypeStr),
     Token(<< "<", ":", "i", "n", "t", ">" >>, <<>>, TypeInt),
     Token(<< "<", "x", ":", "i", "n", "t", ">" >>, << "x" >>, TypeInt)}

RECURSIVE Joined(_)
\* "/" + s1 + "/" + s2 + ...
Joined(parts) ==
    IF parts = <<>> THEN <<>>
    ELSE << "/" >> \o Head(parts) \o Joined(Tail(parts))

PairingPatterns ==
    {Joined([i \in 1..Len(toks) |-> toks[i].text]):
        toks \in UNION {[1..k -> PairingTokens]: k \in 1..MaxWildcards}}

Segments == {<< "a" >>, << "7" >>}

WildcardPaths ==
    {Joined(segs): segs \in UNION {[1..k -> Segments]: k \in 1..MaxWildcards}}

\* The names and types of the patterns /<name>, /<name:type>.
TokenNames ==
    {<<>>, << "!" >>, << "x" >>, << "_" >>, << "x", "1" >>, << "1", "a" >>,
     << "a", "!" >>, << "!", "!" >>, << "x", NL >>, << NL >>}

NoType == << "?" >>

TokenTypes ==
    {NoType, <<>>, TypeStr, TypePath, TypeInt, TypePlusInt, TypeMinusInt,
     << "f", "o", "o" >>, << "I", "n", "t" >>, << "i", "n", "t", ":" >>,
     << "i", "n", "t", NL >>}

\* /<name> when type is NoType, /<name:type> otherwise
TokenPattern(name, type) ==
    << "/", "<" >> \o name
        \o (IF type = NoType THEN <<>> ELSE << ":" >> \o type) \o << ">" >>

ValidityPatterns ==
    {TokenPattern(name, type): name \in TokenNames, type \in TokenTypes}

WildcardPatterns == PairingPatterns \cup ValidityPatterns

NextWildcard ==
    \/ /\ history = <<>>
       /\ \E pattern \in WildcardPatterns: Add("GET", pattern)
    \/ /\ history # <<>>
       /\ \E path \in WildcardPaths: Resolve("GET", path)

SpecWildcard == Init /\ [][NextWildcard]_vars

RECURSIVE Split(_, _)
\* The parts of "/" + s1 + "/" + s2 + ..., the current part being acc.
Split(s, acc) ==
    IF s = <<>> THEN << acc >>
    ELSE IF Head(s) = "/" THEN << acc >> \o Split(Tail(s), <<>>)
    ELSE Split(Tail(s), Append(acc, Head(s)))

\* s1, s2, ... of "/" + s1 + "/" + s2 + ...
Parts(s) == Tail(Split(s, <<>>))

TokenOf(text) == CHOOSE tok \in PairingTokens: tok.text = text

\* A path segment as the type reads it: a segment is "a" or "7".
SegmentMatches(type, seg) == type = TypeStr \/ seg = << "7" >>

SegmentValue(type, seg) ==
    IF type = TypeStr THEN StrValue(seg) ELSE IntValue(7)

RECURSIVE Positional(_, _, _)
\* The values of the tokens with an empty name, from the k-th token on.
Positional(toks, segs, k) ==
    IF k > Len(toks) THEN <<>>
    ELSE (IF toks[k].name = <<>>
          THEN << SegmentValue(toks[k].type, segs[k]) >> ELSE <<>>)
            \o Positional(toks, segs, k + 1)

\* The named values: every name other than "" and "!" is mapped to the
\* value of the last token that bears it.
Named(toks, segs) ==
    LET names == {toks[k].name: k \in 1..Len(toks)} \ {<<>>, << "!" >>}
    IN  [name \in names |->
            LET k == Last({j \in 1..Len(toks): toks[j].name = name})
            IN  SegmentValue(toks[k].type, segs[k])]

\* What a route of pattern /t1/t2/... returns for the path /s1/s2/...
Paired(pattern, path) ==
    LET toks == [k \in 1..Len(Parts(pattern)) |-> TokenOf(Parts(pattern)[k])]
        segs == Parts(path)
    IN  IF /\ Len(toks) = Len(segs)
           /\ \A k \in 1..Len(toks): SegmentMatches(toks[k].type, segs[k])
        THEN Found(1, Positional(toks, segs, 1), Named(toks, segs))
        ELSE None

(***************************************************************************)
(* C8: when a wildcard route matches, the k-th token is paired with the    *)
(* k-th capture group: a token named `!` yields nothing but keeps the      *)
(* later tokens aligned, a token with an empty name appends its converted  *)
(* value to the positional list in order, and a token with another name    *)
(* sets that name in the named mapping, a later one overwriting an earlier *)
(* one.                                                                    *)
(***************************************************************************)
C8_TokensPairedInOrder ==
    (call.op = "resolve" /\ history[1].pattern \in PairingPatterns) =>
        call.result = Paired(history[1].pattern, call.text)

\* "/<!>/<x:int>" on "/a/7": the `!` capture "a" is dropped and x is the
\* second capture, 7.
C8_Witness ==
    /\ call.op = "resolve"
    /\ history[1].pattern
          = << "/", "<", "!", ">", "/", "<", "x", ":", "i", "n", "t", ">" >>
    /\ call.text = << "/", "a", "/", "7" >>
    /\ call.result = Found(1, <<>>, SetItem(EmptyDict, << "x" >>, IntValue(7)))

\* A name that is empty, `!` or an identifier.
ValidName(name) ==
    \/ name = <<>>
    \/ name = << "!" >>
    \/ /\ name # <<>>
       /\ name[1] \in Letters \cup {"_"}
       /\ \A k \in 2..Len(name): name[k] \in WordChars

\* A type that is missing, empty or one of str, path, int, +int, -int.
ValidType(type) ==
    type \in {NoType, <<>>, TypeStr, TypePath, TypeInt, TypePlusInt,
              TypeMinusInt}

(***************************************************************************)
(* C9: add of a wildcard pattern fails with RouteError whenever a token    *)
(* has a name that is not empty, not `!` and not an identifier, or a type  *)
(* that is not one of str, path, int, +int, -int; a pattern whose tokens   *)
(* are all valid never fails.                                              *)
(***************************************************************************)
C9_InvalidTokenFails ==
    \A name \in TokenNames, type \in TokenTypes:
        (call.op = "add" /\ call.text = TokenPattern(name, type)) =>
            /\ call.exc \in {"", "RouteError"}
            /\ call.exc = "RouteError"
                  <=> (~ValidName(name) \/ ~ValidType(type))

(***************************************************************************)
(* The integer wildcard types: one route /item/<n:T> on a router, resolved *)
(* on /item/ followed by a segment of digits and `-`.                      *)
(***************************************************************************)
MaxSegment == 3

SegmentChars == {"0", "7", "-"}

IntSegments ==
    UNION {[1..n -> SegmentChars] : n \in 0..MaxSegment}

IntTypes == {TypeInt, TypePlusInt, TypeMinusInt}

ItemPrefix == << "/", "i", "t", "e", "m", "/" >>

ItemPattern(type) == ItemPrefix \o << "<", "n", ":" >> \o type \o << ">" >>

ItemPath(s) == ItemPrefix \o s

NextInt ==
    \/ /\ history = <<>>
       /\ \E type \in IntTypes: Add("GET", ItemPattern(type))
    \/ /\ history # <<>>
       /\ \E s \in IntSegments: Resolve("GET", ItemPath(s))

SpecInt == Init /\ [][NextInt]_vars

\* s is a non-empty string of digits that does not start with 0.
NoLeadingZero(s) ==
    /\ s # <<>>
    /\ s[1] \in NonZeroDigits
    /\ \A i \in 1..Len(s): s[i] \in Digits

\* The segments the claim lets the type T accept.
Accepts(type, s) ==
    CASE type = TypeInt      -> s = << "0" >> \/ NoLeadingZero(s)
      [] type = TypePlusInt  -> NoLeadingZero(s)
      [] type = TypeMinusInt ->
            \/ s = << "0" >>
            \/ NoLeadingZero(s)
            \/ (s # <<>> /\ s[1] = "-" /\ NoLeadingZero(Tail(s)))

RECURSIVE Power10(_)
Power10(k) == IF k = 0 THEN 1 ELSE 10 * Power10(k - 1)

RECURSIVE Weighted(_, _)
\* The sum of the digits of s from the i-th on, each times its power of 10.
Weighted(s, i) ==
    IF i > Len(s) THEN 0
    ELSE (CHOOSE d \in 0..9: ToString(d) = s[i]) * Power10(Len(s) - i)
            + Weighted(s, i + 1)

\* The integer that an accepted segment denotes.
Denoted(s) ==
    IF s[1] = "-" THEN 0 - Weighted(Tail(s), 1) ELSE Weighted(s, 1)

(***************************************************************************)
(* C11: for T among int, +int and -int and every segment s of digits and   *)
(* `-`, the route /item/<n:T> matches /item/s exactly when s is a segment  *)
(* that T accepts (int: 0 or digits without a leading zero; +int: digits   *)
(* without a leading zero, so neither 0 nor 007; -int: 0 or digits without *)
(* a leading zero after an optional `-`), and on a match the handler gets  *)
(* the one named argument n, the integer that s denotes, not its text.     *)
(***************************************************************************)
C11_IntegerTypes ==
    \A type \in IntTypes, s \in IntSegments:
        (/\ Len(history) = 1
         /\ history[1].pattern = ItemPattern(type)
         /\ Resolved("GET", ItemPath(s)))
        => /\ call.result.found <=> Accepts(type, s)
           /\ call.result.found
                => /\ call.result.callback = 1
                   /\ call.result.args = <<>>
                   /\ DOMAIN call.result.kwargs = {<< "n" >>}
                   /\ call.result.kwargs[<< "n" >>] = IntValue(Denoted(s))

\* /item/<n:-int> resolved on /item/-70 hands n = -70 to the handler.
C11_Witness ==
    /\ Len(history) = 1
    /\ history[1].pattern = ItemPattern(TypeMinusInt)
    /\ Resolved("GET", ItemPath(<< "-", "7", "0" >>))
    /\ call.result.found
    /\ call.result.kwargs[<< "n" >>] = IntValue(0 - 70)

(***************************************************************************)
(* Ice.static and the os.path functions it calls (posixpath), on a file    *)
(* system without symbolic links.                                          *)
(***************************************************************************)
RECURSIVE lstrip(_, _)
\* str.lstrip(chars)
lstrip(s, chars) ==
    IF s # <<>> /\ Head(s) \in chars THEN lstrip(Tail(s), chars) ELSE s

\* os.path.join(a, b)
os_path_join(a, b) ==
    IF StartsWith(b, << "/" >>) THEN b
    ELSE IF a = <<>> \/ a[Len(a)] = "/" THEN a \o b
    ELSE a \o << "/" >> \o b

RECURSIVE str_join(_)
\* '/'.join(comps)
str_join(comps) ==
    IF comps = <<>> THEN <<>>
    ELSE IF Len(comps) = 1 THEN Head(comps)
    ELSE Head(comps) \o << "/" >> \o str_join(Tail(comps))

\* The number of slashes os.path.normpath keeps in front: two when the
\* path starts with exactly two, else one, and none for a relative path.
initial_slashes(path) ==
    IF ~StartsWith(path, << "/" >>) THEN 0
    ELSE IF StartsWith(path, << "/", "/" >>)
            /\ ~StartsWith(path, << "/", "/", "/" >>) THEN 2
    ELSE 1

RECURSIVE normpath_loop(_, _, _)
\* The loop of os.path.normpath over the components left.
normpath_loop(comps, slashes, new_comps) ==
    IF comps = <<>> THEN new_comps
    ELSE IF Head(comps) \in {<<>>, << "." >>}
    THEN normpath_loop(Tail(comps), slashes, new_comps)
    ELSE IF \/ Head(comps) # << ".", "." >>
            \/ (slashes = 0 /\ new_comps = <<>>)
            \/ (new_comps # <<>> /\ new_comps[Len(new_comps)] = << ".", "." >>)
    THEN normpath_loop(Tail(comps), slashes, Append(new_comps, Head(comps)))
    ELSE IF new_comps # <<>>
    THEN normpath_loop(Tail(comps), slashes,
                       SubSeq(new_comps, 1, Len(new_comps) - 1))
    ELSE normpath_loop(Tail(comps), slashes, new_comps)

\* '/' * initial_slashes + path, or '.' when that is empty
normpath_result(slashes, path) ==
    IF slashes = 0 /\ path = <<>> THEN << "." >>
    ELSE [i \in 1..slashes |-> "/"] \o path

\* os.path.normpath(path)
os_path_normpath(path) ==
    IF path = <<>> THEN << "." >>
    ELSE normpath_result(
             initial_slashes(path),
             str_join(normpath_loop(Split(path, <<>>), initial_slashes(path),
                                    <<>>)))

\* os.getcwd()
Cwd == << "/" >>

\* os.path.abspath(path)
os_path_abspath(path) ==
    os_path_normpath(IF StartsWith(path, << "/" >>) THEN path
                     ELSE os_path_join(Cwd, path))

RECURSIVE os_path_basename(_)
\* os.path.basename(path): what follows the last slash
os_path_basename(path) ==
    IF IndexOf(path, "/", 1) = 0 THEN path
    ELSE os_path_basename(Drop(path, IndexOf(path, "/", 1)))

\* The regular files of the file system; the content of a file is modelled
\* by its path.
Files ==
    {<< "/", "w", "/", "a" >>,
     << "/", "w", "/", "w", "x", "/", "s" >>,
     << "/", "w", "x", "/", "s" >>,
     << "/", "s" >>}

\* os.path.isfile(path)
os_path_isfile(path) == path \in Files

\* What a static call leaves behind: the value it returns (a status, or the
\* content of a file) and the fields of self.response it sets.
StaticResult(status, file, filename, media_type) ==
    [status |-> status, file |-> file, filename |-> filename,
     media_type |-> media_type, charset |-> "UTF-8"]

\* Ice.static after the two abspath calls, with the default media_type and
\* charset arguments; mimetypes.guess_type knows no type for a name
\* without an extension.
static_checked(root, path) ==
    IF ~StartsWith(path, root)
    THEN StaticResult(403, <<>>, os_path_basename(path), "text/html")
    ELSE IF ~os_path_isfile(path)
    THEN StaticResult(404, <<>>, os_path_basename(path), "text/html")
    ELSE StaticResult(0, path, os_path_basename(path), "None")

\* Ice.static once root is absolute
static_in(root, path) ==
    static_checked(root,
                   os_path_abspath(os_path_join(root,
                                                lstrip(path, {"/", "\\"}))))

\* Ice.static(root, path)
static(root, path) ==
    static_in(os_path_abspath(os_path_join(root, <<>>)), path)

MaxParts == 3

Roots == {<< "/", "w" >>, << "/", "w", "/" >>, << "w" >>}

PathParts == {<< ".", "." >>, << "a" >>, << "w", "x" >>, << "s" >>}

StaticPaths ==
    {lead \o str_join(parts):
        lead \in {<<>>, << "/" >>},
        parts \in UNION {[1..n -> PathParts]: n \in 1..MaxParts}}

\* app.static(root, path), called by a handler
Static(root, path) ==
    /\ call' = [op |-> "static", root |-> root, path |-> path,
                result |-> static(root, path)]
    /\ UNCHANGED <<_literal, _wildcard, _regex, history>>

NextStatic == \E root \in Roots, path \in StaticPaths: Static(root, path)

SpecStatic == Init /\ [][NextStatic]_vars

RECURSIVE Climb(_, _)
\* The directory reached from the directory `at` (a sequence of names
\* below /) by walking the names of `parts`; the parent of / is /.
Climb(at, parts) ==
    IF parts = <<>> THEN at
    ELSE IF Head(parts) \in {<<>>, << "." >>} THEN Climb(at, Tail(parts))
    ELSE IF Head(parts) = << ".", "." >>
    THEN Climb(IF at = <<>> THEN at ELSE SubSeq(at, 1, Len(at) - 1),
               Tail(parts))
    ELSE Climb(Append(at, Head(parts)), Tail(parts))

\* The names from / down to the document root.
RootDir(root) == Climb(<<>>, Split(root, <<>>))

\* The names from / down to what the client's path resolves to.
Target(root, path) == Climb(RootDir(root), Split(path, <<>>))

\* The target lies inside the document root directory.
Inside(root, path) ==
    /\ Len(Target(root, path)) >= Len(RootDir(root))
    /\ SubSeq(Target(root, path), 1, Len(RootDir(root))) = RootDir(root)

(***************************************************************************)
(* C12: for every document root and client path, static returns the        *)
(* content of a file only when the file the path resolves to lies inside   *)
(* the document root directory, and returns 403 when the resolved path     *)
(* lies outside it.                                                        *)
(***************************************************************************)
C12_ServedWithinRoot ==
    call.op = "static"
        => /\ call.result.status = 0 => Inside(call.root, call.path)
           /\ ~Inside(call.root, call.path) => call.result.status = 403

(***************************************************************************)
(* C13: a Router.add call that fails with an error stores no route: for    *)
(* every method and path, resolve returns after the failed call what it    *)
(* returned before it, and every tier holds as many routes for every       *)
(* method as before.                                                       *)
(***************************************************************************)
C13_FailedAddStoresNothing ==
    (call.op = "add" /\ call.exc # "")
        => /\ \A m \in Methods, p \in Paths:
                resolve(m, p) = history[Len(history)].before.resolve[m, p]
           /\ \A m \in Methods:
                LET before == history[Len(history)].before.entries[m]
                IN  /\ NumEntries(_literal, m) = before.literal
                    /\ NumEntries(_wildcard, m) = before.wildcard
                    /\ NumEntries(_regex, m) = before.regex

\* A second add fails for a method that already has a wildcard route.
C13_Witness ==
    /\ call.op = "add"
    /\ call.exc # ""
    /\ Len(history) = 2
    /\ history[1].method = history[2].method
    /\ history[1].type = "wildcard"
    /\ history[1].exc = ""
    /\ NumEntries(_wildcard, call.method) = 1

(***************************************************************************)
(* C14: routes are isolated per method.  After any sequence of add calls,  *)
(* resolve(m, p) only returns a handler that an add call registered with   *)
(* the method m, and an add call for a method leaves the result of         *)
(* resolve(m, p) as it was for every other method m and every path p.      *)
(***************************************************************************)
C14_MethodIsolation ==
    /\ \A m \in Methods, p \in Paths:
            (Resolved(m, p) /\ call.result.found)
            => \E i \in 1..Len(history):
                    /\ history[i].method = m
                    /\ history[i].exc = ""
                    /\ history[i].callback = call.result.callback
    /\ call.op = "add"
            => \A m \in Methods \ {call.method}, p \in Paths:
                    resolve(m, p) = history[Len(history)].before.resolve[m, p]

\* GET and DELETE each have a route for the same pattern, and each method
\* resolves to its own handler.
C14_Witness ==
    /\ call.op = "add"
    /\ Len(history) = 2
    /\ history[1].method = "GET"
    /\ history[2].method = "DELETE"
    /\ history[1].pattern = PatX
    /\ history[2].pattern = PatX
    /\ resolve("GET", PathA).found
    /\ resolve("GET", PathA).callback = 1
    /\ resolve("DELETE", PathA).callback = 2

(***************************************************************************)
(* Ice.__call__: a request dispatched through the router.                  *)
(***************************************************************************)
\* The handler invoked (0 when none is) and the status of the response,
\* `route` being what self.router.resolve returned.  A handler is taken to
\* return the text of a page, which leaves the status at 200.
Ice_call_value(route, method) ==
    IF route.found THEN [invoked |-> route.callback, status |-> 200]
    ELSE IF contains_method(method) THEN [invoked |-> 0, status |-> 404]
    ELSE [invoked |-> 0, status |-> 501]

\* Ice.__call__ for a request with the method and path given
Ice_call(method, path) == Ice_call_value(resolve(method, path), method)

\* app(environ, start_response)
Request(method, path) ==
    LET d == resolve_dicts(method, path)
    IN  /\ _literal' = d.literal
        /\ _wildcard' = d.wildcard
        /\ _regex' = d.regex
        /\ call' = [op |-> "request", method |-> method, text |-> path,
                    route |-> resolve(method, path),
                    invoked |-> Ice_call(method, path).invoked,
                    status |-> Ice_call(method, path).status]
        /\ UNCHANGED history

NextIce ==
    \/ /\ Len(history) < MaxAdds
       /\ \E method \in Methods, pattern \in Patterns: Add(method, pattern)
    \/ \E method \in Methods, path \in Paths: Request(method, path)

SpecIce == Init /\ [][NextIce]_vars

\* An add call registered a route for the method m.
RouteRegistered(m) ==
    \E i \in 1..Len(history): history[i].method = m /\ history[i].exc = ""

(***************************************************************************)
(* C15: for every request for which resolve finds no route, the status of  *)
(* the response is 404 exactly when at least one route is registered for   *)
(* the method of the request and 501 exactly when none is, and no handler  *)
(* is invoked.                                                             *)
(***************************************************************************)
C15_StatusWithoutRoute ==
    (call.op = "request" /\ ~call.route.found)
        => /\ call.status = 404 <=> RouteRegistered(call.method)
           /\ call.status = 501 <=> ~RouteRegistered(call.method)
           /\ call.invoked = 0
====
